---- MODULE Spec2Model ----
(***************************************************************************)
(* Candidate bookkeeping of the nabo-rs nearest-neighbour search           *)
(* (src/src/heap.rs): the four collection strategies behind the            *)
(* CandidateCollector / CandidateHeap traits, driven as by one query.      *)
(*                                                                         *)
(* One instance of every strategy is built with the same k and fed the     *)
(* same observations, one add at a time, the way the tree traversal feeds  *)
(* its collector.  A squared distance is a natural number, and positive    *)
(* infinity is the number Infinity, larger than every finite distance, so  *)
(* that <, <=, > on NotNan<T> are the integer comparisons.  An observation  *)
(* carries either internal index 0, the index the unfilled slots carry, or *)
(* an index no earlier observation carried.                                *)
(***************************************************************************)
EXTENDS Integers, Sequences, FiniteSets

\* Largest finite squared distance an observation may carry.
MaxDist == 1
\* Largest number of add calls of one query.
MaxObs == 4
\* Largest capacity k handed to new_with_k / with_capacity.
MaxK == 3

\* The squared distances of the five points of the end-to-end scenario, in the
\* order of their internal indices 0..4.
ScenarioDist2 == <<9, 1, 25, 4, 16>>

\* +infinity: above every finite squared distance an observation may carry
Infinity ==
  1 + CHOOSE d \in {MaxDist} \cup {ScenarioDist2[i] : i \in 1..Len(ScenarioDist2)} :
        /\ d >= MaxDist
        /\ \A i \in 1..Len(ScenarioDist2) : d >= ScenarioDist2[i]
Dists == (0..MaxDist) \cup {Infinity}

VARIABLES
  k,                 \* the capacity every strategy was constructed with
  debug_assertions,  \* whether the build evaluates debug_assert_eq!
  obs,               \* the observations passed to add since construction
  cobs,              \* those passed to the two collectors since their last clear
  arr,               \* Vec<InternalNeighbour<T>>: the sorted array strategy
  heap,              \* BinaryHeap<InternalNeighbour<T>>: data and capacity
  best,              \* InternalNeighbour<T>: the single-best strategy
  bc,                \* BoundedCollector: its BinaryHeap
  ub,                \* UnboundedCollector: (.0 ids, .1 running maximum)
  panicked,          \* the objects a panic has unwound
  phase,             \* "query" while adds arrive, "done" after extraction
  out,               \* what the extraction operations returned
  pc,                \* position of a stand-alone call: "idle", "call", "return"
  vec,               \* the vector handed to keep_finite_elements
  kept,              \* the vector keep_finite_elements returned
  value,             \* the Parameters handed to InternalParameters::from
  internal           \* the InternalParameters it returned

strategies == <<k, debug_assertions, obs, cobs, arr, heap, best, bc, ub, panicked, phase, out>>
standalone == <<pc, vec, kept, value, internal>>
vars == <<strategies, standalone>>

----------------------------------------------------------------------------
\* InternalNeighbour { index, dist2 }
Neighbour(index, dist2) == [index |-> index, dist2 |-> dist2]

\* Ord / PartialOrd of InternalNeighbour: by dist2 alone, the index is ignored.
Neighbour_le(a, b) == a.dist2 <= b.dist2
Neighbour_lt(a, b) == a.dist2 < b.dist2
Neighbour_ge(a, b) == a.dist2 >= b.dist2

----------------------------------------------------------------------------
\* alloc::collections::BinaryHeap as the strategy uses it.  Positions are the
\* 0-based positions of the Rust code; data[p + 1] is the element at position p.

\* BinaryHeap::sift_up(start, pos) with the element `elt` taken out of the hole.
RECURSIVE sift_up(_, _, _, _)
sift_up(data, start, pos, elt) ==
  IF pos > start /\ ~Neighbour_le(elt, data[((pos - 1) \div 2) + 1])
  THEN sift_up([data EXCEPT ![pos + 1] = data[((pos - 1) \div 2) + 1]],
               start, (pos - 1) \div 2, elt)
  ELSE [data EXCEPT ![pos + 1] = elt]

\* BinaryHeap::push
Heap_push(data, item) == sift_up(Append(data, item), 0, Len(data), item)

\* end.saturating_sub(2)
saturating_sub2(end) == IF end >= 2 THEN end - 2 ELSE 0

\* BinaryHeap::sift_down_range(pos, end) with the element `elt` taken out of the hole.
RECURSIVE sift_down_range(_, _, _, _)
sift_down_range(data, pos, end, elt) ==
  LET child == 2 * pos + 1 IN
  IF child <= saturating_sub2(end)
  THEN LET c == IF Neighbour_le(data[child + 1], data[child + 2])
                THEN child + 1 ELSE child
       IN IF Neighbour_ge(elt, data[c + 1])
          THEN [data EXCEPT ![pos + 1] = elt]
          ELSE sift_down_range([data EXCEPT ![pos + 1] = data[c + 1]], c, end, elt)
  ELSE IF child = end - 1 /\ Neighbour_lt(elt, data[child + 1])
       THEN [[data EXCEPT ![pos + 1] = data[child + 1]] EXCEPT ![child + 1] = elt]
       ELSE [data EXCEPT ![pos + 1] = elt]

\* mutant: overwrites the last element of the heap, not its top
Heap_replace_last(data, item) ==
  sift_up([data EXCEPT ![Len(data)] = item], 0, Len(data) - 1, item)

\* PeekMut: the top is overwritten and, when the guard is dropped, sifted down.
Heap_replace_top(data, item) ==
  sift_down_range([data EXCEPT ![1] = item], 0, Len(data), item)

\* BinaryHeap::into_sorted_vec: in-place heap sort.
RECURSIVE heap_sort(_, _)
heap_sort(data, end) ==
  IF end > 1
  THEN LET e == end - 1
           swapped == [[data EXCEPT ![1] = data[e + 1]] EXCEPT ![e + 1] = data[1]]
       IN heap_sort(sift_down_range(swapped, 0, e, swapped[1]), e)
  ELSE data

----------------------------------------------------------------------------
\* impl CandidateCollector / CandidateHeap for BinaryHeap<InternalNeighbour<T>>

Heap_new_with_k(kk) == [data |-> <<>>, cap |-> kk]

\* add panics when peek_mut().unwrap() meets an empty heap, i.e. capacity 0
Heap_add_panics(h) == ~(Len(h.data) < h.cap) /\ Len(h.data) = 0

\* mutant: a full heap takes the larger distance instead of the smaller
Heap_add_keep_largest(h, dist2, index) ==
  IF Len(h.data) < h.cap
  THEN [h EXCEPT !.data = Heap_push(h.data, Neighbour(index, dist2))]
  ELSE IF dist2 > h.data[1].dist2
       THEN [h EXCEPT !.data = Heap_replace_top(h.data, Neighbour(index, dist2))]
       ELSE h

\* mutant: pushes without looking at the capacity
Heap_add_unbounded(h, dist2, index) ==
  [h EXCEPT !.data = Heap_push(h.data, Neighbour(index, dist2))]

Heap_add(h, dist2, index) ==
  IF Len(h.data) < h.cap
  THEN [h EXCEPT !.data = Heap_push(h.data, Neighbour(index, dist2))]
  ELSE IF dist2 < h.data[1].dist2
       THEN [h EXCEPT !.data = Heap_replace_top(h.data, Neighbour(index, dist2))]
       ELSE h

\* mutant: reports the top although the heap is not yet full
Heap_furthest_dist2_top(h) ==
  IF Len(h.data) = 0 THEN Infinity ELSE h.data[1].dist2

Heap_furthest_dist2(h) ==
  IF Len(h.data) < h.cap THEN Infinity
  ELSE IF Len(h.data) = 0 THEN Infinity ELSE h.data[1].dist2

Heap_into_vec(h) == h.data
Heap_into_sorted_vec(h) == heap_sort(h.data, Len(h.data))

----------------------------------------------------------------------------
\* mutant: drops the infinite elements wherever they stand
keep_finite_elements_filter(v) ==
  SelectSeq(v, LAMBDA x : x.dist2 # Infinity)

\* mutant: truncates one element too late
keep_finite_elements_late(v) ==
  LET infs == {p \in 1..Len(v) : v[p].dist2 = Infinity} IN
  IF infs = {} THEN v
  ELSE LET pos == CHOOSE p \in infs : \A q \in infs : p <= q
       IN SubSeq(v, 1, pos)

\* keep_finite_elements: truncate at the first infinite-distance element
keep_finite_elements(v) ==
  LET infs == {p \in 1..Len(v) : v[p].dist2 = Infinity} IN
  IF infs = {} THEN v
  ELSE LET pos == CHOOSE p \in infs : \A q \in infs : p <= q
       IN SubSeq(v, 1, pos - 1)

\* impl CandidateCollector / CandidateHeap for Vec<InternalNeighbour<T>>

Vec_new_with_k(kk) == [j \in 1..kk |-> Neighbour(0, Infinity)]

\* self[self.len() - 1] on an empty vector: the subtraction overflows (debug
\* build) or the index is out of bounds (release build); both panic.
Vec_furthest_dist2_panics(v) == Len(v) = 0

Vec_furthest_dist2(v) == v[Len(v)].dist2

\* the while loop of add; i is the 0-based index of the code, the result is
\* the vector and the final i
RECURSIVE Vec_shift(_, _, _)
Vec_shift(v, i, dist2) ==
  IF i > 0 /\ v[i].dist2 > dist2
  THEN Vec_shift([v EXCEPT ![i + 1] = v[i]], i - 1, dist2)
  ELSE <<v, i>>

\* mutant: no early return for a distance beyond the bound
Vec_add_no_reject(v, dist2, index) ==
  LET r == Vec_shift(v, Len(v) - 1, dist2)
  IN [r[1] EXCEPT ![r[2] + 1] = Neighbour(index, dist2)]

\* mutant: writes the new entry at the insertion point and into the last slot
Vec_add_dup(v, dist2, index) ==
  IF dist2 > Vec_furthest_dist2(v) THEN v
  ELSE LET r == Vec_shift(v, Len(v) - 1, dist2)
       IN [r[1] EXCEPT ![Len(v)] = Neighbour(index, dist2),
                       ![r[2] + 1] = Neighbour(index, dist2)]

\* mutant: writes the new entry into the last slot without shifting
Vec_add_unsorted(v, dist2, index) ==
  IF dist2 > Vec_furthest_dist2(v) THEN v
  ELSE [v EXCEPT ![Len(v)] = Neighbour(index, dist2)]

Vec_add(v, dist2, index) ==
  IF dist2 > Vec_furthest_dist2(v) THEN v
  ELSE LET r == Vec_shift(v, Len(v) - 1, dist2)
       IN [r[1] EXCEPT ![r[2] + 1] = Neighbour(index, dist2)]

Vec_into_vec(v) == keep_finite_elements(v)
Vec_into_sorted_vec(v) == keep_finite_elements(v)

----------------------------------------------------------------------------
\* impl CandidateCollector / CandidateHeap for InternalNeighbour<T>

\* debug_assert_eq!(k, 1) fails only in a build with debug assertions
Best_new_with_k_panics(kk, dbg) == dbg /\ kk # 1

Best_new_with_k(kk) == Neighbour(0, Infinity)

\* mutant: replaces on equality as well
Best_add_le(n, dist2, index) ==
  IF dist2 <= n.dist2 THEN Neighbour(index, dist2) ELSE n

Best_add(n, dist2, index) ==
  IF dist2 < n.dist2 THEN Neighbour(index, dist2) ELSE n

Best_furthest_dist2(n) == n.dist2

Best_into_vec(n) == <<n>>
Best_into_sorted_vec(n) == <<n>>

----------------------------------------------------------------------------
\* UnboundedCollector(Vec<u32>, NotNan<T>, PhantomData)

NotNan_max(a, b) == IF a >= b THEN a ELSE b

Unbounded_with_capacity(capacity) == [ids |-> <<>>, furthest |-> 0]

\* mutant: the bound is overwritten, not maximised
Unbounded_add_last(u, dist2, index) ==
  [ids |-> Append(u.ids, index), furthest |-> dist2]

Unbounded_add(u, dist2, index) ==
  [ids |-> Append(u.ids, index), furthest |-> NotNan_max(u.furthest, dist2)]

Unbounded_furthest_dist2(u) == u.furthest

\* mutant: clear forgets to reset the running maximum
Unbounded_clear_keep_bound(u) == [ids |-> <<>>, furthest |-> u.furthest]

Unbounded_clear(u) == [ids |-> <<>>, furthest |-> 0]

\* KDTree::externalise_index: the external identifier the tree stores for an
\* internal index
externalise_index(index) == 100 + index

Unbounded_externalise(u) == [p \in 1..Len(u.ids) |-> externalise_index(u.ids[p])]

\* BoundedCollector(BinaryHeap<InternalNeighbour<T>>, PhantomData)

Bounded_with_capacity(capacity) == [data |-> <<>>, cap |-> capacity]

Bounded_add(b, dist2, index) == Heap_add(b, dist2, index)

Bounded_furthest_dist2(b) == Heap_furthest_dist2(b)

\* BinaryHeap::clear keeps the allocation, hence the capacity
Bounded_clear(b) == [b EXCEPT !.data = <<>>]

Bounded_externalise(b) == [p \in 1..Len(b.data) |-> externalise_index(b.data[p].index)]

----------------------------------------------------------------------------
NoOut == [arr_vec |-> <<>>, arr_sorted |-> <<>>, heap_vec |-> <<>>, heap_sorted |-> <<>>,
          best_vec |-> <<>>, best_sorted |-> <<>>, bc_ext |-> <<>>, ub_ext |-> <<>>]

\* Construction of every strategy with the same k.
StrategiesInit ==
  /\ k \in 0..MaxK
  /\ debug_assertions \in BOOLEAN
  /\ obs = <<>>
  /\ cobs = <<>>
  /\ arr = Vec_new_with_k(k)
  /\ heap = Heap_new_with_k(k)
  /\ best = Best_new_with_k(k)
  /\ bc = Bounded_with_capacity(k)
  /\ ub = Unbounded_with_capacity(k)
  /\ panicked = IF Best_new_with_k_panics(k, debug_assertions) THEN {"best"} ELSE {}
  /\ phase = "query"
  /\ out = NoOut

\* No stand-alone call is made while a query is followed.
NoParameters == [panicked |-> FALSE]

Init ==
  /\ StrategiesInit
  /\ pc = "idle"
  /\ vec = <<>>
  /\ kept = <<>>
  /\ value = NoParameters
  /\ internal = NoParameters

\* The internal indices the next visited point may carry.
Indices == {0, Len(obs) + 1}

\* add(dist2, index) on every live strategy.
Visit(dist2, index) ==
  /\ phase = "query"
  /\ obs' = Append(obs, Neighbour(index, dist2))
  /\ cobs' = Append(cobs, Neighbour(index, dist2))
  /\ arr' = IF "array" \in panicked \/ Vec_furthest_dist2_panics(arr)
            THEN arr ELSE Vec_add(arr, dist2, index)
  /\ heap' = IF "heap" \in panicked \/ Heap_add_panics(heap)
             THEN heap ELSE Heap_add(heap, dist2, index)
  /\ best' = IF "best" \in panicked THEN best ELSE Best_add(best, dist2, index)
  /\ bc' = IF "bounded" \in panicked \/ Heap_add_panics(bc)
           THEN bc ELSE Bounded_add(bc, dist2, index)
  /\ ub' = Unbounded_add(ub, dist2, index)
  /\ panicked' = panicked
       \cup (IF Vec_furthest_dist2_panics(arr) THEN {"array"} ELSE {})
       \cup (IF Heap_add_panics(heap) THEN {"heap"} ELSE {})
       \cup (IF Heap_add_panics(bc) THEN {"bounded"} ELSE {})
  /\ UNCHANGED <<k, debug_assertions, phase, out>>
  /\ UNCHANGED standalone

\* The traversal visits one more point: at most MaxObs of them.
Add(dist2, index) ==
  /\ Len(obs) < MaxObs
  /\ Visit(dist2, index)

\* BoundedCollector::clear and UnboundedCollector::clear between two queries
\* of the reused collectors.  Neither can fail, and a collector whose add
\* panicked is cleared like any other.
Clear ==
  /\ phase = "query"
  /\ bc' = Bounded_clear(bc)
  /\ ub' = Unbounded_clear(ub)
  /\ cobs' = <<>>
  /\ UNCHANGED <<k, debug_assertions, obs, arr, heap, best, panicked, phase, out>>
  /\ UNCHANGED standalone

\* End of the query: into_vec / into_sorted_vec consume the strategies, the
\* collectors are externalised.
Extract ==
  /\ phase = "query"
  /\ phase' = "done"
  /\ out' = [arr_vec     |-> IF "array" \in panicked THEN <<>> ELSE Vec_into_vec(arr),
             arr_sorted  |-> IF "array" \in panicked THEN <<>> ELSE Vec_into_sorted_vec(arr),
             heap_vec    |-> IF "heap" \in panicked THEN <<>> ELSE Heap_into_vec(heap),
             heap_sorted |-> IF "heap" \in panicked THEN <<>> ELSE Heap_into_sorted_vec(heap),
             best_vec    |-> IF "best" \in panicked THEN <<>> ELSE Best_into_vec(best),
             best_sorted |-> IF "best" \in panicked THEN <<>> ELSE Best_into_sorted_vec(best),
             bc_ext      |-> IF "bounded" \in panicked THEN <<>> ELSE Bounded_externalise(bc),
             ub_ext      |-> Unbounded_externalise(ub)]
  /\ UNCHANGED <<k, debug_assertions, obs, cobs, arr, heap, best, bc, ub, panicked>>
  /\ UNCHANGED standalone

Next ==
  \/ \E dist2 \in Dists, index \in Indices : Add(dist2, index)
  \/ Clear
  \/ Extract

Spec == Init /\ [][Next]_vars

----------------------------------------------------------------------------
\* The end-to-end scenario: the traversal visits the five points, each once,
\* in any order, with any capacity k >= 1, and extracts at any time.  TopKSpec
\* follows a query either of the scenario or of the observations of Spec.

ScenarioInit ==
  /\ StrategiesInit
  /\ k >= 1
  /\ debug_assertions = FALSE
  /\ pc = "scenario"
  /\ vec = <<>>
  /\ kept = <<>>
  /\ value = NoParameters
  /\ internal = NoParameters

ScenarioAdd(i) ==
  /\ pc = "scenario"
  /\ \A p \in 1..Len(obs) : obs[p].index # i - 1
  /\ Visit(ScenarioDist2[i], i - 1)

ScenarioExtract ==
  /\ pc = "scenario"
  /\ Extract

QueryNext ==
  /\ pc = "idle"
  /\ Next

TopKInit == Init \/ ScenarioInit

TopKNext ==
  \/ QueryNext
  \/ \E i \in 1..Len(ScenarioDist2) : ScenarioAdd(i)
  \/ ScenarioExtract

TopKSpec == TopKInit /\ [][TopKNext]_vars

----------------------------------------------------------------------------
\* keep_finite_elements called on its own, on any vector of neighbours, as the
\* unit test of heap.rs calls it.

\* Longest vector handed to keep_finite_elements.
MaxVec == 3

Vectors ==
  UNION {[1..n -> {Neighbour(i, d) : i \in {0, 1}, d \in Dists}] : n \in 0..MaxVec}

\* the strategies of a query of k = 1, constructed and left alone
StrategiesIdle ==
  /\ StrategiesInit
  /\ k = 1
  /\ debug_assertions = FALSE

KeepFiniteInit ==
  /\ StrategiesIdle
  /\ pc = "call"
  /\ vec \in Vectors
  /\ kept = <<>>
  /\ value = NoParameters
  /\ internal = NoParameters

KeepFinite ==
  /\ pc = "call"
  /\ pc' = "return"
  /\ kept' = keep_finite_elements(vec)
  /\ UNCHANGED <<strategies, vec, value, internal>>

KeepFiniteNext == KeepFinite

KeepFiniteSpec == KeepFiniteInit /\ [][KeepFiniteNext]_vars

----------------------------------------------------------------------------
\* InternalParameters::from(&Parameters) (src/src/internal_parameters.rs),
\* with T = f32.  A scalar is NaN, +infinity, or the non-negative number
\* m * 2^e with m odd (m = 0, e = 0 for zero).  Addition and multiplication
\* round to the nearest f32, ties to even, overflow to +infinity, and below
\* the normal range round to a multiple of the smallest subnormal.

\* significand bits of f32, the exponent 2^MAX_EXP no finite f32 reaches, and
\* the exponent of the smallest normal f32, 2^(MIN_EXP - 1)
MANTISSA_DIGITS == 24
MAX_EXP == 128
MIN_EXP == 0 - 125

RECURSIVE Pow2(_)
Pow2(n) == IF n = 0 THEN 1 ELSE 2 * Pow2(n - 1)

RECURSIVE BitLen(_)
BitLen(m) == IF m = 0 THEN 0 ELSE 1 + BitLen(m \div 2)

F_nan == [kind |-> "nan", m |-> 0, e |-> 0]
F_inf == [kind |-> "inf", m |-> 0, e |-> 0]

RECURSIVE Finite(_, _)
Finite(m, e) ==
  IF m = 0 THEN [kind |-> "finite", m |-> 0, e |-> 0]
  ELSE IF m % 2 = 0 THEN Finite(m \div 2, e + 1)
  ELSE [kind |-> "finite", m |-> m, e |-> e]

\* the f32 nearest to (hi * 2^MANTISSA_DIGITS + lo) * 2^e, lo < 2^MANTISSA_DIGITS
\* and hi < 2^MANTISSA_DIGITS.  The last s bits are rounded away: those beyond
\* MANTISSA_DIGITS significant bits, and those below the smallest subnormal
\* 2^(MIN_EXP - MANTISSA_DIGITS).
Round(hi, lo, e) ==
  LET sPrec == IF hi = 0 THEN 0 ELSE BitLen(hi)
      sSub  == (MIN_EXP - MANTISSA_DIGITS) - e
      s     == IF sSub > sPrec THEN sSub ELSE sPrec
      t     == s - MANTISSA_DIGITS
      \* quotient and remainder of the division by 2^s, the remainder compared
      \* with 2^(s-1): "above", "half" or "below"
      q     == IF s <= MANTISSA_DIGITS
               THEN hi * Pow2(MANTISSA_DIGITS - s) + (lo \div Pow2(s))
               ELSE IF t <= MANTISSA_DIGITS THEN hi \div Pow2(t)
               ELSE 0
      rem   == IF s <= MANTISSA_DIGITS
               THEN LET r == lo % Pow2(s)
                    IN IF r > Pow2(s - 1) THEN "above"
                       ELSE IF r = Pow2(s - 1) THEN "half" ELSE "below"
               ELSE IF t <= MANTISSA_DIGITS
               THEN LET rh == hi % Pow2(t)
                    IN IF rh > Pow2(t - 1) \/ (rh = Pow2(t - 1) /\ lo > 0) THEN "above"
                       ELSE IF rh = Pow2(t - 1) THEN "half" ELSE "below"
               ELSE "below"
      mm    == IF s = 0 THEN lo
               ELSE IF rem = "above" \/ (rem = "half" /\ q % 2 = 1) THEN q + 1 ELSE q
      ee    == e + s
  IN IF mm # 0 /\ ee + BitLen(mm) > MAX_EXP THEN F_inf ELSE Finite(mm, ee)

\* the exponent just above the leading bit of a finite non-zero scalar
Top(x) == x.e + BitLen(x.m)

\* a + b on non-negative f32: the larger operand is widened by three guard
\* bits, the smaller is aligned to it with the bits shifted out kept as a
\* sticky last bit, and the sum is rounded.
FAdd(a, b) ==
  IF a.kind = "nan" \/ b.kind = "nan" THEN F_nan
  ELSE IF a.kind = "inf" \/ b.kind = "inf" THEN F_inf
  ELSE IF a.m = 0 THEN b
  ELSE IF b.m = 0 THEN a
  ELSE LET big   == IF Top(a) >= Top(b) THEN a ELSE b
           small == IF Top(a) >= Top(b) THEN b ELSE a
           pad   == MANTISSA_DIGITS + 3 - BitLen(big.m)
           ea    == big.e - pad
           d     == ea - small.e
           q     == small.m \div Pow2(d)
           B     == IF d <= 0 THEN small.m * Pow2(0 - d)
                    ELSE IF d >= BitLen(small.m) THEN 1
                    ELSE IF small.m % Pow2(d) # 0 THEN 2 * (q \div 2) + 1 ELSE q
           sum   == big.m * Pow2(pad) + B
           W     == Pow2(MANTISSA_DIGITS)
       IN Round(sum \div W, sum % W, ea)

\* a * b on non-negative f32: the exact product of the two significands, in
\* two halves of MANTISSA_DIGITS bits, rounded.
FMul(a, b) ==
  IF a.kind = "nan" \/ b.kind = "nan" THEN F_nan
  ELSE IF a.kind = "inf" \/ b.kind = "inf"
       THEN IF (a.kind = "finite" /\ a.m = 0) \/ (b.kind = "finite" /\ b.m = 0)
            THEN F_nan ELSE F_inf
  ELSE IF a.m = 0 \/ b.m = 0 THEN Finite(0, 0)
  ELSE LET L   == Pow2(MANTISSA_DIGITS \div 2)
           h1  == a.m \div L
           l1  == a.m % L
           h2  == b.m \div L
           l2  == b.m % L
           mid == h1 * l2 + l1 * h2
           lof == l1 * l2 + (mid % L) * L
           hi  == h1 * h2 + (mid \div L) + (lof \div (L * L))
       IN Round(hi, lof % (L * L), a.e + b.e)

\* T::from(1).unwrap()
One == Finite(1, 0)

\* mutant: max_error is not squared
InternalParameters_from_unsquared(p) ==
  LET max_error   == FAdd(p.epsilon, One)
      max_error2  == max_error
      max_radius2 == FMul(p.max_radius, p.max_radius)
  IN IF max_error2.kind = "nan" \/ max_radius2.kind = "nan"
     THEN [panicked |-> TRUE]
     ELSE [panicked |-> FALSE,
           max_error2 |-> max_error2,
           max_radius2 |-> max_radius2,
           allow_self_match |-> p.allow_self_match]

\* impl From<&Parameters<T>> for InternalParameters<T>; NotNan::new(x).unwrap()
\* panics when x is NaN.
InternalParameters_from(p) ==
  LET max_error   == FAdd(p.epsilon, One)
      max_error2  == FMul(max_error, max_error)
      max_radius2 == FMul(p.max_radius, p.max_radius)
  IN IF max_error2.kind = "nan" \/ max_radius2.kind = "nan"
     THEN [panicked |-> TRUE]
     ELSE [panicked |-> FALSE,
           max_error2 |-> max_error2,
           max_radius2 |-> max_radius2,
           allow_self_match |-> p.allow_self_match]

\* The scalars a caller may put into Parameters: NaN, +infinity, zero, and
\* m * 2^e around the rounding, underflow and overflow thresholds of f32.
Scalars ==
  {F_nan, F_inf, Finite(0, 0)}
    \cup {Finite(m, e) : m \in {1, 3},
                         e \in {-75, -74, -30, -25, -24, -23, -12, -1, 0, 1, 63, 64}}

ParamInit ==
  /\ StrategiesIdle
  /\ pc = "call"
  /\ vec = <<>>
  /\ kept = <<>>
  /\ value \in [epsilon : Scalars, max_radius : Scalars, allow_self_match : BOOLEAN]
  /\ internal = NoParameters

From ==
  /\ pc = "call"
  /\ pc' = "return"
  /\ internal' = InternalParameters_from(value)
  /\ UNCHANGED <<strategies, vec, kept, value>>

ParamNext == From

ParamSpec == ParamInit /\ [][ParamNext]_vars

----------------------------------------------------------------------------
\* What the claims speak of.

\* observation i comes before observation j: smaller distance, or the same
\* distance and seen earlier
Before(s, i, j) == s[i].dist2 < s[j].dist2 \/ (s[i].dist2 = s[j].dist2 /\ i < j)

\* the observations in ascending order of distance, first seen first among equals
Ranked(s) ==
  [r \in 1..Len(s) |->
     s[CHOOSE j \in 1..Len(s) : Cardinality({i \in 1..Len(s) : Before(s, i, j)}) = r - 1]]

\* the kk smallest observations, first seen wins ties
TopK(s, kk) == SubSeq(Ranked(s), 1, kk)

Entries(s) == {s[p] : p \in 1..Len(s)}

Min2(a, b) == IF a <= b THEN a ELSE b

\* the observation the step from this state to the next passes to add
IsAdd == Len(obs') = Len(obs) + 1
Added == obs'[Len(obs')]

Live(s) == s \notin panicked

AllFinite == \A i \in 1..Len(obs) : obs[i].dist2 < Infinity

\* C1 (as claimed, already on observations of finite distance): with
\* 1 <= k <= number of observations, into_sorted_vec of the sorted array and of
\* the heap is exactly the k smallest observations in ascending order of distance,
\* the first seen kept among equal distances, identifiers included.
C1_TopKFirstSeen ==
  (phase = "done" /\ k >= 1 /\ k <= Len(obs) /\ AllFinite)
    => /\ out.arr_sorted = TopK(obs, k)
       /\ out.heap_sorted = TopK(obs, k)

\* C2 (as claimed, already on observations of finite distance): for k >= 1 the
\* sorted array and the heap, fed the same observations, extract the same set of
\* (distance, identifier) entries.
C2_ArrayHeapSameEntries ==
  (phase = "done" /\ k >= 1 /\ AllFinite)
    => /\ Entries(out.arr_vec) = Entries(out.heap_vec)
       /\ Entries(out.arr_sorted) = Entries(out.heap_sorted)

\* C3: furthest_dist2() is +infinity while a bounded strategy is not yet full
\* (fewer than k adds or fewer than k heap elements; nothing observed for
\* single-best), and no add ever raises the value furthest_dist2() returns.
C3_NotFullIsInfinite ==
  /\ (Live("array") /\ k >= 1 /\ Len(obs) < k) => Vec_furthest_dist2(arr) = Infinity
  /\ (Live("heap") /\ (Len(obs) < k \/ Len(heap.data) < k))
        => Heap_furthest_dist2(heap) = Infinity
  /\ (Live("best") /\ Len(obs) = 0) => Best_furthest_dist2(best) = Infinity

C3_NonIncreasing ==
  IsAdd =>
    /\ (Live("array") /\ k >= 1) => Vec_furthest_dist2(arr') <= Vec_furthest_dist2(arr)
    /\ (Live("heap") /\ k >= 1) => Heap_furthest_dist2(heap') <= Heap_furthest_dist2(heap)
    /\ Live("best") => Best_furthest_dist2(best') <= Best_furthest_dist2(best)

C3_MonotonicBound == [] C3_NotFullIsInfinite /\ [][C3_NonIncreasing]_vars

\* C3 witness: every bounded strategy is full and its bound has come down below
\* the distance of an observation it has seen.
C3_Witness ==
  /\ k >= 1 /\ Len(obs) > k /\ Live("best")
  /\ \E i \in 1..Len(obs) :
       /\ obs[i].dist2 < Infinity
       /\ Vec_furthest_dist2(arr) < obs[i].dist2
       /\ Heap_furthest_dist2(heap) < obs[i].dist2
       /\ Best_furthest_dist2(best) < obs[i].dist2

\* C4 (as claimed): an add whose distance equals the worst retained distance
\* (last slot of a filled array, top of a full heap, held value of single-best)
\* leaves the retained entries unchanged; entries change only on a strictly
\* smaller distance.
C4_RejectsEqual ==
  IsAdd =>
    /\ (Live("array") /\ k >= 1 /\ Len(obs) >= k /\ Added.dist2 >= arr[k].dist2)
          => arr' = arr
    /\ (Live("heap") /\ k >= 1 /\ Len(heap.data) = k /\ Added.dist2 >= heap.data[1].dist2)
          => heap' = heap
    /\ (Live("best") /\ Added.dist2 >= best.dist2) => best' = best

C4_TieBreakOnAdd == [][C4_RejectsEqual]_vars

\* C5 (as claimed): after a non-empty sequence of adds the single-best strategy
\* built by new_with_k(1) holds the observation of minimum distance, the first
\* added among those of that distance.
C5_SingleBestIsMinimum ==
  (phase = "done" /\ k = 1 /\ obs # <<>>) => out.best_vec = <<Ranked(obs)[1]>>

\* C5 (amended): it does so whenever some observation has a finite distance;
\* when every observation has infinite distance it still holds its initial
\* value (identifier 0, distance +infinity).
C5_SingleBestFiniteMinimum ==
  (phase = "done" /\ k = 1 /\ obs # <<>>)
    => /\ out.best_vec =
            <<IF \E i \in 1..Len(obs) : obs[i].dist2 < Infinity
              THEN Ranked(obs)[1] ELSE Neighbour(0, Infinity)>>
       /\ out.best_sorted = out.best_vec

\* C5 witness: two observations share the minimum, finite, distance and the
\* earlier one is the one held.
C5_Witness ==
  /\ phase = "done" /\ k = 1
  /\ \E i, j \in 1..Len(obs) :
       /\ i < j /\ obs[i].dist2 = obs[j].dist2 /\ obs[i].index # obs[j].index
       /\ obs[i].dist2 < Infinity
       /\ \A m \in 1..Len(obs) : obs[m].dist2 >= obs[i].dist2
       /\ \E m \in 1..i : obs[m].dist2 > obs[i].dist2
       /\ out.best_vec = <<obs[i]>>

FiniteObs(s) == SelectSeq(s, LAMBDA n : n.dist2 < Infinity)

\* C6 (as claimed): n < k observations, of finite or infinite distance, added to
\* the k-slot array: into_vec and into_sorted_vec return exactly n entries, each
\* an observed pair, none of infinite distance.
C6_SentinelTruncation ==
  (phase = "done" /\ k >= 1 /\ Len(obs) < k)
    => /\ Len(out.arr_vec) = Len(obs) /\ Len(out.arr_sorted) = Len(obs)
       /\ Entries(out.arr_vec) \subseteq Entries(obs)
       /\ Entries(out.arr_sorted) \subseteq Entries(obs)
       /\ \A e \in Entries(out.arr_vec) \cup Entries(out.arr_sorted) : e.dist2 < Infinity

\* C6 (amended): they return exactly the observations of finite distance (all n
\* when every distance is finite), in ascending order of distance and first seen
\* first among equals; observations of infinite distance are not returned.
C6_FiniteObservationsReturned ==
  (phase = "done" /\ k >= 1 /\ Len(obs) < k)
    => /\ out.arr_vec = Ranked(FiniteObs(obs))
       /\ out.arr_sorted = Ranked(FiniteObs(obs))

\* C6 witness: fewer than k observations, finite and infinite ones among them,
\* and the extraction holds the finite ones only.
C6_Witness ==
  /\ phase = "done" /\ k >= 2 /\ Len(obs) < k
  /\ \E i, j \in 1..Len(obs) : obs[i].dist2 = Infinity /\ obs[j].dist2 < Infinity
  /\ Len(out.arr_vec) = Len(FiniteObs(obs))
  /\ Len(out.arr_vec) >= 1 /\ Len(out.arr_vec) < Len(obs)

\* C7: an unbounded collector with no add since construction or clear
\* externalises to the empty sequence; a heap of capacity k >= 1 never holds more
\* than k entries, and after n adds into_vec and into_sorted_vec return
\* min(n, k) entries.
C7_ExtractionShape ==
  /\ (phase = "done" /\ cobs = <<>>) => out.ub_ext = <<>>
  /\ k >= 1 => Len(heap.data) <= k
  /\ (phase = "done" /\ k >= 1)
       => /\ Len(out.heap_vec) = Min2(Len(obs), k)
          /\ Len(out.heap_sorted) = Min2(Len(obs), k)

\* C7 witness: more than k adds reached a heap that returns k entries, and the
\* unbounded collector, cleared after its adds, externalises to nothing.
C7_Witness ==
  /\ phase = "done" /\ k >= 2 /\ Len(obs) > k
  /\ Len(out.heap_vec) = k /\ Len(out.heap_sorted) = k
  /\ cobs = <<>> /\ out.ub_ext = <<>>

\* C8 (as claimed): a capacity of 0 fails at construction, so no add of the
\* query is where a strategy built with k = 0 first fails.
C8_NoFailureInsideQuery ==
  (k = 0 /\ IsAdd) => panicked' = panicked

C8_InvalidCapacity == [][C8_NoFailureInsideQuery]_vars

Sentinel == Neighbour(0, Infinity)

\* C9 (as claimed): no extraction of any strategy returns an entry (identifier 0,
\* infinite distance) that was never passed to add.
C9_NoSentinelExtracted ==
  (phase = "done" /\ Sentinel \notin Entries(obs))
    => Sentinel \notin
         (Entries(out.arr_vec) \cup Entries(out.arr_sorted)
            \cup Entries(out.heap_vec) \cup Entries(out.heap_sorted)
            \cup Entries(out.best_vec) \cup Entries(out.best_sorted))

RECURSIVE MaxDistOf(_)
MaxDistOf(s) ==
  IF s = <<>> THEN 0
  ELSE LET m == MaxDistOf(Tail(s)) IN IF Head(s).dist2 >= m THEN Head(s).dist2 ELSE m

\* C10: the unbounded collector stores the identifier of every add since
\* construction or the last clear, in insertion order, duplicates kept;
\* furthest_dist2() is the maximum of zero and the distances of those adds, and
\* no add lowers it.
C10_AllRetained ==
  /\ ub.ids = [p \in 1..Len(cobs) |-> cobs[p].index]
  /\ Unbounded_furthest_dist2(ub) = MaxDistOf(cobs)

C10_BoundGrows ==
  IsAdd => /\ Unbounded_furthest_dist2(ub') >= Unbounded_furthest_dist2(ub)
           /\ ub'.ids = Append(ub.ids, Added.index)

C10_UnboundedCollector == [] C10_AllRetained /\ [][C10_BoundGrows]_vars

\* C10 witness: after a clear, the collector holds a repeated identifier and an
\* add whose distance lay beyond the bound reported before it, followed by an
\* add below the bound.
C10_Witness ==
  /\ Len(cobs) >= 3 /\ Len(obs) > Len(cobs)
  /\ Len(ub.ids) = Len(cobs)
  /\ \E i, j \in 1..Len(cobs) : i < j /\ ub.ids[i] = ub.ids[j]
  /\ cobs[1].dist2 < cobs[2].dist2 /\ cobs[3].dist2 < cobs[2].dist2
  /\ Unbounded_furthest_dist2(ub) = cobs[2].dist2

\* C12 (as claimed): new_with_k(k) of the single-best strategy fails at
\* construction for every k other than 1, and for k = 1 it succeeds with the
\* held value (identifier 0, distance +infinity).
C12_SingleBestMisuse ==
  obs = <<>> =>
    /\ k # 1 => ~Live("best")
    /\ k = 1 => (Live("best") /\ best = Neighbour(0, Infinity))

Dist2s(s) == [p \in 1..Len(s) |-> s[p].dist2]

\* no two observations share a distance
DistinctDist2 == \A i, j \in 1..Len(obs) : i # j => obs[i].dist2 # obs[j].dist2

\* the five points of the scenario were visited in the order of their indices
ScenarioVisited ==
  /\ Dist2s(obs) = ScenarioDist2
  /\ \A p \in 1..Len(obs) : obs[p].index = p - 1

\* C13: observations of finite distance and 1 <= k <= their number: the
\* distances into_sorted_vec returns, for the array and for the heap, are the k
\* smallest observed distances in ascending order; where no two observations
\* share a distance the identifiers are theirs too; and distances
\* [9, 1, 25, 4, 16] with identifiers 0..4 and k = 3 give
\* [(1, id 1), (4, id 3), (9, id 0)].
C13_TopKDistances ==
  (phase = "done" /\ k >= 1 /\ k <= Len(obs) /\ AllFinite)
    => /\ Dist2s(out.arr_sorted) = Dist2s(TopK(obs, k))
       /\ Dist2s(out.heap_sorted) = Dist2s(TopK(obs, k))
       /\ DistinctDist2 =>
            /\ out.arr_sorted = TopK(obs, k)
            /\ out.heap_sorted = TopK(obs, k)
       /\ (ScenarioVisited /\ k = 3) =>
            /\ out.arr_sorted = <<Neighbour(1, 1), Neighbour(3, 4), Neighbour(0, 9)>>
            /\ out.heap_sorted = <<Neighbour(1, 1), Neighbour(3, 4), Neighbour(0, 9)>>

\* C13 witness: the scenario itself, the five points visited in the order of
\* their indices with k = 3 and extracted from the array and from the heap.
C13_Witness ==
  /\ phase = "done" /\ k = 3 /\ ScenarioVisited
  /\ Len(out.arr_sorted) = 3 /\ Len(out.heap_sorted) = 3
  /\ out.arr_sorted[3].index = 0 /\ out.heap_sorted[3].index = 0

\* Reached as well: more observations than k, an observation evicted, and the
\* array and the heap keeping different identifiers among equal distances.
C13_TiesReached ==
  /\ phase = "done" /\ k >= 2 /\ Len(obs) > k /\ AllFinite
  /\ obs[1].dist2 > obs[Len(obs)].dist2
  /\ obs[1] \notin Entries(out.arr_sorted)
  /\ Entries(out.arr_sorted) # Entries(out.heap_sorted)
  /\ Dist2s(out.arr_sorted) = Dist2s(out.heap_sorted)

\* C14: for k >= 1 the array always has exactly k slots, in non-decreasing
\* order of distance, hence every infinite slot after every finite one, and
\* furthest_dist2() is the largest slot distance.
C14_SortedArray ==
  (k >= 1 /\ Live("array"))
    => /\ Len(arr) = k
       /\ \A i, j \in 1..Len(arr) : i < j => arr[i].dist2 <= arr[j].dist2
       /\ \A i, j \in 1..Len(arr) :
            (arr[i].dist2 = Infinity /\ arr[j].dist2 < Infinity) => j < i
       /\ \A i \in 1..Len(arr) : arr[i].dist2 <= Vec_furthest_dist2(arr)

\* C14 witness: an add was shifted in front of an earlier, larger entry and an
\* unfilled slot is still at the tail.
C14_Witness ==
  /\ k >= 3 /\ Len(obs) >= 2
  /\ obs[1].dist2 > obs[2].dist2
  /\ arr[1].dist2 < arr[2].dist2 /\ arr[2].dist2 < Infinity
  /\ arr[Len(arr)] = Neighbour(0, Infinity)

\* C15: in every bounded strategy an add whose distance is strictly greater
\* than the value furthest_dist2() returns leaves the whole state of the
\* strategy unchanged: same entries, same order, same bound.
C15_RejectedBeyondBound ==
  IsAdd =>
    /\ (Live("array") /\ k >= 1 /\ Added.dist2 > Vec_furthest_dist2(arr))
          => (arr' = arr /\ Vec_furthest_dist2(arr') = Vec_furthest_dist2(arr))
    /\ (Live("heap") /\ k >= 1 /\ Added.dist2 > Heap_furthest_dist2(heap))
          => (heap' = heap /\ Heap_furthest_dist2(heap') = Heap_furthest_dist2(heap))
    /\ (Live("best") /\ Added.dist2 > Best_furthest_dist2(best))
          => (best' = best /\ Best_furthest_dist2(best') = Best_furthest_dist2(best))

C15_PruningBoundSound == [][C15_RejectedBeyondBound]_vars

\* C15 witness: the last add lay beyond the bound of every bounded strategy,
\* and none of them holds it.
C15_Witness ==
  /\ k >= 1 /\ Len(obs) > k /\ Live("best")
  /\ obs[Len(obs)].dist2 > Vec_furthest_dist2(arr)
  /\ obs[Len(obs)].dist2 > Heap_furthest_dist2(heap)
  /\ obs[Len(obs)].dist2 > Best_furthest_dist2(best)
  /\ obs[Len(obs)].index # 0
  /\ obs[Len(obs)] \notin Entries(arr) \cup Entries(heap.data) \cup {best}

Count(s, e) == Cardinality({p \in 1..Len(s) : s[p] = e})

\* the largest distance a sequence of neighbours holds
LargestDist2(s) == CHOOSE d \in {s[p].dist2 : p \in 1..Len(s)} :
                     \A p \in 1..Len(s) : s[p].dist2 <= d

\* C16: a heap of capacity k >= 1 with fewer than k entries retains every add;
\* with k entries its furthest_dist2() is the largest retained distance, an add
\* of strictly smaller distance removes exactly one entry of that largest
\* distance and inserts the new one, and any other add changes nothing.
C16_Step ==
  (IsAdd /\ k >= 1 /\ Live("heap")) =>
    IF Len(heap.data) < k
    THEN /\ Len(heap'.data) = Len(heap.data) + 1
         /\ \A e \in Entries(heap.data) \cup {Added} :
              Count(heap'.data, e) = Count(heap.data, e) + (IF e = Added THEN 1 ELSE 0)
    ELSE /\ Heap_furthest_dist2(heap) = LargestDist2(heap.data)
         /\ IF Added.dist2 < LargestDist2(heap.data)
            THEN /\ Len(heap'.data) = k
                 /\ \E victim \in Entries(heap.data) :
                      /\ victim.dist2 = LargestDist2(heap.data)
                      /\ \A e \in Entries(heap.data) \cup {Added} :
                           Count(heap'.data, e) =
                             Count(heap.data, e) - (IF e = victim THEN 1 ELSE 0)
                                                 + (IF e = Added THEN 1 ELSE 0)
            ELSE heap' = heap

C16_HeapEviction == [][C16_Step]_vars

\* C16 witness: a full heap of three entries has evicted an observation of the
\* largest distance for a later, strictly smaller one.
C16_Witness ==
  /\ k = 3 /\ Len(obs) > k /\ Len(heap.data) = k
  /\ obs[Len(obs)] \in Entries(heap.data)
  /\ \E i \in 1..k :
       /\ obs[i].dist2 < Infinity /\ obs[i].dist2 > obs[Len(obs)].dist2
       /\ obs[i].dist2 >= LargestDist2(heap.data)
       /\ Count(heap.data, obs[i]) < Count(obs, obs[i])

\* C18: in every state the entries the array holds, its infinite unfilled
\* slots (identifier 0) aside, and the entries the heap holds are observations
\* passed to add, none held more often than it was added.
C18_NoFabricatedEntries ==
  /\ Live("array") => \A e \in Entries(arr) \ {Sentinel} : Count(arr, e) <= Count(obs, e)
  /\ Live("array") => Count(arr, Sentinel) <= Count(obs, Sentinel) + k
  /\ Live("heap") => \A e \in Entries(heap.data) : Count(heap.data, e) <= Count(obs, e)

\* C18 witness: after a shift that evicted the last slot, the array and the
\* heap hold an observation that was added twice exactly twice.
C18_Witness ==
  /\ k = 3 /\ Len(obs) > k
  /\ \E e \in Entries(arr) :
       /\ e.dist2 < Infinity
       /\ Count(obs, e) = 2 /\ Count(arr, e) = 2 /\ Count(heap.data, e) = 2
  /\ \E i \in 1..Len(obs) : obs[i].dist2 < Infinity /\ obs[i] \notin Entries(arr)

RECURSIVE FeedBounded(_, _)
FeedBounded(b, s) ==
  IF s = <<>> THEN b
  ELSE FeedBounded(Bounded_add(b, Head(s).dist2, Head(s).index), Tail(s))

RECURSIVE FeedUnbounded(_, _)
FeedUnbounded(u, s) ==
  IF s = <<>> THEN u
  ELSE FeedUnbounded(Unbounded_add(u, Head(s).dist2, Head(s).index), Tail(s))

\* C19: clear leaves a collector equal to one freshly built by with_capacity
\* with the same capacity: no entries, furthest_dist2() at its initial value
\* (+infinity for a bounded collector of capacity k >= 1, zero for the unbounded
\* one), at most k entries retained afterwards, and after any further adds the
\* same state, bounds and externalised identifiers as the fresh collector
\* given those adds.
C19_AfterClear ==
  /\ cobs = <<>> =>
       /\ ub = Unbounded_with_capacity(k)
       /\ Unbounded_furthest_dist2(ub) = 0
       /\ bc = Bounded_with_capacity(k)
       /\ Len(bc.data) = 0
       /\ k >= 1 => Bounded_furthest_dist2(bc) = Infinity
  /\ ub = FeedUnbounded(Unbounded_with_capacity(k), cobs)
  /\ (k >= 1 /\ Live("bounded")) =>
       /\ bc = FeedBounded(Bounded_with_capacity(k), cobs)
       /\ Len(bc.data) <= k
  /\ phase = "done" =>
       /\ out.ub_ext = Unbounded_externalise(FeedUnbounded(Unbounded_with_capacity(k), cobs))
       /\ (k >= 1 /\ Live("bounded")) =>
            out.bc_ext = Bounded_externalise(FeedBounded(Bounded_with_capacity(k), cobs))

C19_ClearStep ==
  (cobs # <<>> /\ cobs' = <<>>) =>
    /\ ub' = Unbounded_with_capacity(k)
    /\ bc' = Bounded_with_capacity(k)

C19_ClearResets == [] C19_AfterClear /\ [][C19_ClearStep]_vars

\* C19 witness: collectors that held a larger distance were cleared, took
\* further adds beyond the capacity, and were externalised.
C19_Witness ==
  /\ phase = "done" /\ k >= 1 /\ Len(cobs) > k /\ Len(obs) > Len(cobs)
  /\ obs[1].dist2 > Unbounded_furthest_dist2(ub)
  /\ Len(out.ub_ext) = Len(cobs) /\ Len(out.bc_ext) = k

\* the position of the first infinite-distance element of s, Len(s) + 1 if none
FirstInfinite(s) ==
  CHOOSE p \in 1..(Len(s) + 1) :
    /\ p <= Len(s) => s[p].dist2 = Infinity
    /\ \A q \in 1..(p - 1) : s[q].dist2 # Infinity

\* C17: for every input vector, sorted or not, keep_finite_elements returns
\* exactly the elements that precede the first infinite-distance element, in
\* order, distances and identifiers unchanged: the whole input when it has no
\* infinite element, and nothing at or after the first infinite element, finite
\* or not.
C17_KeepFinitePrefix ==
  pc = "return" =>
    /\ Len(kept) = FirstInfinite(vec) - 1
    /\ \A p \in 1..Len(kept) : kept[p] = vec[p]
    /\ (\A p \in 1..Len(vec) : vec[p].dist2 # Infinity) => kept = vec
    /\ \A p \in 1..Len(kept) : kept[p].dist2 # Infinity

\* C17 witness: an unsorted vector whose first infinite element is followed by
\* a finite one lost that finite element.
C17_Witness ==
  /\ pc = "return" /\ Len(vec) = 3 /\ Len(kept) = 1
  /\ vec[1].dist2 > 0 /\ vec[1].dist2 < Infinity
  /\ vec[2].dist2 = Infinity
  /\ vec[3].dist2 < vec[1].dist2 /\ vec[3].index # vec[1].index

\* a <= b on scalars that are not NaN
F_le(a, b) ==
  IF b.kind = "inf" THEN TRUE
  ELSE IF a.kind = "inf" THEN FALSE
  ELSE IF a.m = 0 THEN TRUE
  ELSE IF b.m = 0 THEN FALSE
  ELSE IF Top(a) # Top(b) THEN Top(a) < Top(b)
  ELSE LET emin == IF a.e < b.e THEN a.e ELSE b.e
       IN a.m * Pow2(a.e - emin) <= b.m * Pow2(b.e - emin)

\* Parameters that passed the validation at query start: epsilon >= 0 and
\* max_radius >= 0, which no NaN satisfies
Validated(p) == p.epsilon.kind # "nan" /\ p.max_radius.kind # "nan"

\* What the conversion returns, the last clause of the claim aside.
C11_Returned ==
  /\ internal.panicked = FALSE
  /\ internal.max_error2 = FMul(FAdd(value.epsilon, One), FAdd(value.epsilon, One))
  /\ internal.max_radius2 = FMul(value.max_radius, value.max_radius)
  /\ internal.allow_self_match = value.allow_self_match
  /\ F_le(One, internal.max_error2)

\* C11 (as claimed): the conversion returns max_error2 = (1 + epsilon)^2,
\* max_radius2 = max_radius^2 and allow_self_match unchanged, with
\* max_error2 >= 1 for every epsilon >= 0, and max_error2 = 1 exactly when
\* epsilon = 0.
C11_ExactlyWhenZero ==
  (pc = "return" /\ Validated(value)) =>
    /\ C11_Returned
    /\ internal.max_error2 = One <=> value.epsilon = Finite(0, 0)

C11_AsComputed ==
  (pc = "return" /\ Validated(value)) =>
    /\ C11_Returned
    /\ value.epsilon = Finite(0, 0) => internal.max_error2 = One
    /\ internal.max_error2 = One => FAdd(value.epsilon, One) = One

\* C11 (amended): the conversion returns max_error2 = (1 + epsilon)^2 and
\* max_radius2 = max_radius^2 as computed in T, allow_self_match unchanged, and
\* leaves its input and everything else unmodified; max_error2 >= 1 for every
\* epsilon >= 0, it is 1 when epsilon = 0, and it is 1 for a positive epsilon
\* only when 1 + epsilon rounds to 1 in T.
C11_ParameterAdaptation ==
  [] C11_AsComputed /\ [][value' = value /\ UNCHANGED strategies]_vars

\* C11 witness: a positive epsilon too small for f32 gave max_error2 = 1,
\* while the radius was squared to a finite value other than itself.
C11_Witness ==
  /\ pc = "return" /\ Validated(value)
  /\ value.epsilon # Finite(0, 0) /\ internal.max_error2 = One
  /\ value.max_radius.kind = "finite" /\ internal.max_radius2.kind = "finite"
  /\ internal.max_radius2 # value.max_radius
  /\ value.allow_self_match

====
